---- MODULE Spec2Model ----
(***************************************************************************)
(* A model of the MikroTik network scanner: the device store and its       *)
(* topology / asymmetry computations (server/storage.ts, db-storage), the  *)
(* probe client and the SSH tunnel manager (server/mikrotik.ts,            *)
(* server/ssh-tunnel.ts), the scan loop (server/scanner.ts) and the        *)
(* routes: POST /api/scans with its background task, the progress channel  *)
(* GET /api/scans/:id/progress and POST /api/routers/:id/rescan.           *)
(***************************************************************************)
EXTENDS Integers, Sequences, FiniteSets, TLC

VARIABLES
    routers,       \* the routers table, in iteration order: Seq of Router
    nextId,        \* the next fresh router id (randomUUID / gen_random_uuid)
    scans,         \* the scans table: Seq of Scan, a job's id is its index
    pc,            \* per job: where its background task stands
    idx,           \* per job: the loop index i of scanSubnet (1-based)
    found,         \* per job: scanSubnet's local `routers` (ids pushed)
    cur,           \* per job: what the current iteration has fetched so far
    events,        \* per job: the progress events published, in order
    probed,        \* per job: the addresses testConnection was called on
    responses,     \* the (subnet, HTTP status) pairs POST /api/scans answered
    tunnelClient,  \* SSHTunnelManager.client: 0 (null) or a session number
    isConnected,   \* SSHTunnelManager.isConnected
    clientTunnel,  \* whether the MikrotikClient in use holds an sshTunnel
    lastProbe,     \* the last probe operation run and what it returned
    sessions,      \* the ssh2 Clients created so far: Seq of their states
    tunnelHost,    \* SSHTunnelManager.host
    sessionHost,   \* per ssh2 Client created: the host it was connected to
    clients,       \* scanProgressClients: per job id, the Responses to write to
    subscribers,   \* per progress request: its state and what was written to it
    connLog        \* the device connections opened: who, how, tunnel up or not

storeVars  == <<routers, nextId>>
sinkVars   == <<clients, subscribers>>
jobVars    == <<scans, pc, idx, found, cur, events, probed, responses,
               clients, subscribers, connLog>>
tunnelVars == <<tunnelClient, isConnected, sessions, tunnelHost, sessionHost>>
vars == <<routers, nextId, scans, pc, idx, found, cur, events, probed,
          responses, tunnelClient, isConnected, clientTunnel, lastProbe,
          sessions, tunnelHost, sessionHost, clients, subscribers, connLog>>

-----------------------------------------------------------------------------
(* Bounds of the model *)

\* Devices the store holds in the store-level specification.
MaxDevices == 2
\* Rows of one device's neighbor table.
MaxNeighbors == 2
\* Rows of the neighbor table a device answers with during a scan.
MaxScanNeighbors == 1
\* Scan jobs requested in one behaviour.
MaxScans == 2
\* ssh2 Clients the tunnel manager creates in one behaviour.
MaxSessions == 2
\* Progress requests (GET /api/scans/:id/progress) in one behaviour.
MaxSubscribers == 2
\* Scan jobs requested where one job is followed together with its
\* subscribers or with the tunnel's events.
MaxWatchedScans == 1

-----------------------------------------------------------------------------
(* Program constants *)

\* storage.ts:220  difference > 50 ? "high"
HighThreshold == 50
\* storage.ts:220  difference > 20 ? "medium" : "low"
MediumThreshold == 20
\* scanner.ts:32  if (totalIps > 1024)
MaxSubnetIps == 1024

-----------------------------------------------------------------------------
(* Value domains *)

\* Host addresses (the last octet of 10.0.0.x).
IPs == {1, 2}

\* Neighbor costs the store-level specification draws from; their pairwise
\* differences are 1, 20, 21, 50, 51 and 71: both sides of both severity
\* thresholds.
TopoCosts == {0, 20, 21, 71}

\* An OSPFNeighbor row, cut to the two fields the analysis reads.
NeighborRec(S, C) == [neighborIp : S, cost : C]

RECURSIVE SeqsUpTo(_, _)
SeqsUpTo(S, n) ==
    IF n = 0 THEN {<<>>}
    ELSE LET shorter == SeqsUpTo(S, n - 1)
         IN shorter \cup {Append(s, x) : s \in {t \in shorter : Len(t) = n - 1}, x \in S}

Abs(x) == IF x < 0 THEN -x ELSE x

-----------------------------------------------------------------------------
(* The device store: getRouterByIp, createRouter, updateRouter *)

\* Array.find((router) => router.ip === ip): the index of the first router
\* with that ip, 0 when there is none (undefined).
IndexByIp(rs, ip) ==
    IF \E k \in 1..Len(rs) : rs[k].ip = ip
    THEN CHOOSE k \in 1..Len(rs) :
            rs[k].ip = ip /\ \A m \in 1..(k - 1) : rs[m].ip # ip
    ELSE 0

IndexById(rs, id) ==
    IF \E k \in 1..Len(rs) : rs[k].id = id
    THEN CHOOSE k \in 1..Len(rs) : rs[k].id = id
    ELSE 0

\* createRouter: a fresh id, the inserted fields, appended to the table.
CreateRouter(rs, id, ins, now) ==
    Append(rs, [id |-> id, ip |-> ins.ip, hostname |-> ins.hostname,
                identity |-> ins.identity, status |-> ins.status,
                ospfNeighbors |-> ins.ospfNeighbors, lastSeen |-> now])

\* An update that also renames the device after the identity it answered.
UpdateRouterRenaming(rs, id, upd) ==
    LET k == IndexById(rs, id)
    IN IF k = 0 THEN rs
       ELSE [rs EXCEPT ![k] = [@ EXCEPT !.status = upd.status,
                                        !.identity = upd.identity,
                                        !.hostname = upd.identity,
                                        !.ospfNeighbors = upd.ospfNeighbors,
                                        !.lastSeen = upd.lastSeen]]

UpdateRouterMerging(rs, id, upd) ==
    LET k == IndexById(rs, id)
    IN IF k = 0 THEN rs
       ELSE [rs EXCEPT ![k] = [@ EXCEPT !.status = upd.status,
                                        !.identity = upd.identity,
                                        !.ospfNeighbors = @ \o upd.ospfNeighbors,
                                        !.lastSeen = upd.lastSeen]]

\* updateRouter(id, updates) as the scanner calls it: status, identity,
\* ospfNeighbors and lastSeen are overwritten, the rest is kept; no row with
\* that id: nothing is written (it returns undefined).
UpdateRouter(rs, id, upd) ==
    LET k == IndexById(rs, id)
    IN IF k = 0 THEN rs
       ELSE [rs EXCEPT ![k] = [@ EXCEPT !.status = upd.status,
                                        !.identity = upd.identity,
                                        !.ospfNeighbors = upd.ospfNeighbors,
                                        !.lastSeen = upd.lastSeen]]

-----------------------------------------------------------------------------
(* getTopologyData *)

\* A pair key that keeps the order of its arguments.
PairKeyDirected(a, b) == <<a, b>>

\* [a, b].sort().join("-"): the two ids in sorted order.
PairKey(a, b) == IF a <= b THEN <<a, b>> ELSE <<b, a>>

EdgeMapHas(m, key) == \E e \in m : e.key = key
EdgeMapGet(m, key) == CHOOSE e \in m : e.key = key

\* The body of the inner forEach: one neighbor row of one router.
TopologyVisit(rs, acc, router, neighbor) ==
    LET t == IndexByIp(rs, neighbor.neighborIp)
    IN IF t = 0 THEN acc
       ELSE LET target == rs[t]
                key == PairKey(router.id, target.id)
                map2 == IF EdgeMapHas(acc.edgeMap, key) THEN acc.edgeMap
                        ELSE acc.edgeMap \cup
                             {[key |-> key, source |-> router.id,
                               target |-> target.id, cost |-> neighbor.cost]}
                existingEdge == EdgeMapGet(map2, key)
            IN [edgeMap |-> map2,
                edges |-> Append(acc.edges,
                    [source |-> router.id, target |-> target.id,
                     cost |-> neighbor.cost,
                     isAsymmetric |-> (existingEdge.cost # neighbor.cost),
                     reverseCost |-> existingEdge.cost])]

RECURSIVE TopologyNeighbors(_, _, _, _)
TopologyNeighbors(rs, acc, router, n) ==
    IF n > Len(router.ospfNeighbors) THEN acc
    ELSE TopologyNeighbors(rs,
             TopologyVisit(rs, acc, router, router.ospfNeighbors[n]),
             router, n + 1)

RECURSIVE TopologyRouters(_, _, _)
TopologyRouters(rs, acc, k) ==
    IF k > Len(rs) THEN acc
    ELSE TopologyRouters(rs, TopologyNeighbors(rs, acc, rs[k], 1), k + 1)

\* The edges of getTopologyData(), in the order pushed.
TopologyEdges(rs) ==
    TopologyRouters(rs, [edgeMap |-> {}, edges |-> <<>>], 1).edges

\* The nodes of getTopologyData(): one per router.
TopologyNodes(rs) == [k \in 1..Len(rs) |-> [id |-> rs[k].id, ip |-> rs[k].ip]]

-----------------------------------------------------------------------------
(* getAsymmetricRoutes *)

SeverityOfInclusive(difference) ==
    IF difference >= HighThreshold THEN "high"
    ELSE IF difference >= MediumThreshold THEN "medium" ELSE "low"

\* difference > 50 ? "high" : difference > 20 ? "medium" : "low"
SeverityOf(difference) ==
    IF difference > HighThreshold THEN "high"
    ELSE IF difference > MediumThreshold THEN "medium" ELSE "low"

\* The last row of router that points at ip, 0 when there is none.
LastNeighborTo(router, ip) ==
    LET ns == router.ospfNeighbors
    IN IF \E k \in 1..Len(ns) : ns[k].neighborIp = ip
       THEN CHOOSE k \in 1..Len(ns) :
               ns[k].neighborIp = ip /\ \A m \in (k + 1)..Len(ns) : ns[m].neighborIp # ip
       ELSE 0

\* router2.ospfNeighbors.find((n) => n.neighborIp === router1.ip)
FirstNeighborTo(router, ip) ==
    LET ns == router.ospfNeighbors
    IN IF \E k \in 1..Len(ns) : ns[k].neighborIp = ip
       THEN CHOOSE k \in 1..Len(ns) :
               ns[k].neighborIp = ip /\ \A m \in 1..(k - 1) : ns[m].neighborIp # ip
       ELSE 0

\* The body of the inner forEach: one neighbor row of router1.
AsymmetricVisit(rs, acc, router1, neighbor1) ==
    LET t == IndexByIp(rs, neighbor1.neighborIp)
    IN IF t = 0 THEN acc
       ELSE LET router2 == rs[t]
                pairKey == PairKey(router1.id, router2.id)
            IN IF pairKey \in acc.checkedPairs THEN acc
               ELSE LET checked == acc.checkedPairs \cup {pairKey}
                        n2 == FirstNeighborTo(router2, router1.ip)
                    IN IF n2 = 0 THEN [acc EXCEPT !.checkedPairs = checked]
                       ELSE LET neighbor2 == router2.ospfNeighbors[n2]
                                difference == Abs(neighbor1.cost - neighbor2.cost)
                            IN IF neighbor1.cost # neighbor2.cost
                               THEN [checkedPairs |-> checked,
                                     routes |-> Append(acc.routes,
                                        [router1Ip |-> router1.ip,
                                         router2Ip |-> router2.ip,
                                         router1Id |-> router1.id,
                                         router2Id |-> router2.id,
                                         cost1to2 |-> neighbor1.cost,
                                         cost2to1 |-> neighbor2.cost,
                                         difference |-> difference,
                                         severity |-> SeverityOf(difference)])]
                               ELSE [acc EXCEPT !.checkedPairs = checked]

RECURSIVE AsymmetricNeighbors(_, _, _, _)
AsymmetricNeighbors(rs, acc, router1, n) ==
    IF n > Len(router1.ospfNeighbors) THEN acc
    ELSE AsymmetricNeighbors(rs,
             AsymmetricVisit(rs, acc, router1, router1.ospfNeighbors[n]),
             router1, n + 1)

RECURSIVE AsymmetricRouters(_, _, _)
AsymmetricRouters(rs, acc, k) ==
    IF k > Len(rs) THEN acc
    ELSE AsymmetricRouters(rs, AsymmetricNeighbors(rs, acc, rs[k], 1), k + 1)

\* The result of getAsymmetricRoutes(), in the order pushed.
AsymmetricRoutes(rs) ==
    AsymmetricRouters(rs, [checkedPairs |-> {}, routes |-> <<>>], 1).routes

-----------------------------------------------------------------------------
(* SSHTunnelManager and MikrotikClient *)

\* What the environment answers to one connection attempt: the tunnel's
\* forwardOut callback (err or a stream) and the RouterOS API session
\* (connect and login refused or timed out, a query that fails, or success).
\* "refused": no connection to the API port is established; "denied": the
\* connection is established and the login handshake fails.
FwdOutcomes == {"ok", "refused"}
ApiOutcomes == {"ok", "refused", "denied", "badreply"}

ScanCosts == {10, 35}
Identities == {"", "rtr"}
ScanNeighborLists == SeqsUpTo(NeighborRec(IPs, ScanCosts), MaxScanNeighbors)

\* SSHTunnelManager.forwardConnection: throws when there is no connected
\* client, rejects when forwardOut reports an error, else resolves a socket.
ForwardConnection(clientPresent, connected, fwd) ==
    IF ~clientPresent \/ ~connected THEN "not_connected"
    ELSE IF fwd = "ok" THEN "socket" ELSE "forward_failed"

\* MikrotikClient.connect(host): through the tunnel when the client holds
\* one and getStatus().connected, where every failure of forwardConnection
\* becomes an SSHTunnelError; otherwise a direct RouterOSAPI connection.
\* out: "conn" (a connected RouterOSAPI), "error" (conn.connect() threw),
\* "fatal" (SSHTunnelError).
Connect(holdsTunnel, clientPresent, connected, fwd, api) ==
    IF holdsTunnel /\ connected
    THEN IF ForwardConnection(clientPresent, connected, fwd) = "socket"
         THEN [via |-> "tunnel",
               out |-> IF api \in {"refused", "denied"} THEN "error" ELSE "conn"]
         ELSE [via |-> "tunnel", out |-> "fatal"]
    ELSE [via |-> "direct",
          out |-> IF api \in {"refused", "denied"} THEN "error" ELSE "conn"]

\* A channel to the device exists once connect() has a forwarded stream, or
\* once the direct connection of conn.connect() is established.
ChannelOpened(c, api) ==
    IF c.via = "tunnel" THEN c.out # "fatal" ELSE api # "refused"

\* finally { if (conn) conn.close() }: conn is assigned only when connect()
\* returned. When conn.connect() threw, the operation holds no reference to
\* the channel and it is closed only if the library closed it (lib).
ChannelClosed(c, lib) == IF c.out = "conn" THEN TRUE ELSE lib

\* What the library may have done with the channel when conn.connect()
\* threw; nothing to choose on the other paths.
LibChoices(c) == IF c.out = "error" THEN BOOLEAN ELSE {FALSE}

\* What the try block of a probe operation raises: the SSHTunnelError of
\* connect(), the Error of conn.connect() or of a failed conn.write(), or
\* nothing.
Raised(c, api) ==
    IF c.out = "fatal" THEN "SSHTunnelError"
    ELSE IF c.out = "conn" /\ api = "ok" THEN "none" ELSE "Error"

TestConnectionRethrowsAll(c, api) ==
    IF c.out = "conn" /\ api = "ok"
    THEN [thrown |-> FALSE, error |-> "none", online |-> TRUE]
    ELSE [thrown |-> TRUE, error |-> Raised(c, api), online |-> FALSE]

\* testConnection: true after connect and one query; SSHTunnelError is
\* rethrown, every other error is "offline" (false).
TestConnection(c, api) ==
    IF Raised(c, api) = "SSHTunnelError"
    THEN [thrown |-> TRUE, error |-> Raised(c, api), online |-> FALSE]
    ELSE [thrown |-> FALSE, error |-> "none", online |-> (Raised(c, api) = "none")]

\* getSystemInfo: the identity read, {} (here "") on an ordinary error,
\* SSHTunnelError rethrown.
GetSystemInfo(c, api, identity) ==
    IF Raised(c, api) = "SSHTunnelError"
    THEN [thrown |-> TRUE, error |-> Raised(c, api), identity |-> ""]
    ELSE [thrown |-> FALSE, error |-> "none",
          identity |-> IF Raised(c, api) = "none" THEN identity ELSE ""]

GetOSPFNeighborsSwallowsAll(c, api, rows) ==
    [thrown |-> FALSE, error |-> "none", failed |-> (Raised(c, api) # "none"),
     neighbors |-> IF Raised(c, api) = "none" THEN rows ELSE <<>>]

\* getOSPFNeighbors: the rows read, [] on an ordinary error, SSHTunnelError
\* rethrown.
\* failed: the [] of the catch block, as against rows read.
GetOSPFNeighbors(c, api, rows) ==
    IF Raised(c, api) = "SSHTunnelError"
    THEN [thrown |-> TRUE, error |-> Raised(c, api), failed |-> TRUE,
          neighbors |-> <<>>]
    ELSE [thrown |-> FALSE, error |-> "none", failed |-> (Raised(c, api) # "none"),
          neighbors |-> IF Raised(c, api) = "none" THEN rows ELSE <<>>]

\* A session (an ssh2 Client) is "connecting" from new Client().connect(),
\* "ready" after its ready event, "ending" after end() and "closed" after
\* its error or close event.
LiveStates == {"connecting", "ready", "ending"}

\* The SSH gateway the server is configured with, and the gateways a caller
\* of connect() may name.
GatewayHost == "gw-a"
GatewayHosts == {"gw-a", "gw-b"}

\* connect(host): this.host = host, then returns at once when isConnected
\* and a client is held; else a new Client replaces this.client (the Client
\* held before is not ended) and starts connecting to host.
TunnelConnectTo(hosts) ==
    \E h \in hosts :
        /\ tunnelHost' = h
        /\ IF isConnected /\ tunnelClient # 0
           THEN UNCHANGED <<sessions, sessionHost, tunnelClient>>
           ELSE /\ Len(sessions) < MaxSessions
                /\ sessions' = Append(sessions, "connecting")
                /\ sessionHost' = Append(sessionHost, h)
                /\ tunnelClient' = Len(sessions) + 1
        /\ UNCHANGED <<isConnected, clientTunnel, lastProbe, storeVars, jobVars>>

\* connect() as the server calls it: always with the configured gateway.
TunnelConnect == TunnelConnectTo({GatewayHost})

\* client.on("ready") of any Client created by connect(): the handler sets
\* the manager's isConnected, whichever Client this.client is by now.
TunnelReady ==
    \E s \in 1..Len(sessions) :
        /\ sessions[s] = "connecting"
        /\ sessions' = [sessions EXCEPT ![s] = "ready"]
        /\ isConnected' = TRUE
        /\ UNCHANGED <<tunnelClient, tunnelHost, sessionHost, clientTunnel,
                       lastProbe, storeVars, jobVars>>

\* client.on("error") and client.on("close") of any Client created by
\* connect(): the handler clears the manager's isConnected.
TunnelLost ==
    \E s \in 1..Len(sessions) :
        /\ sessions[s] \in LiveStates
        /\ sessions' = [sessions EXCEPT ![s] = "closed"]
        /\ isConnected' = FALSE
        /\ UNCHANGED <<tunnelClient, tunnelHost, sessionHost, clientTunnel,
                       lastProbe, storeVars, jobVars>>

\* disconnect(): this.client.end(), this.client = null.
TunnelDisconnect ==
    /\ tunnelClient # 0
    /\ sessions' = [sessions EXCEPT ![tunnelClient] =
                        IF @ = "closed" THEN "closed" ELSE "ending"]
    /\ tunnelClient' = 0
    /\ isConnected' = FALSE
    /\ UNCHANGED <<tunnelHost, sessionHost, clientTunnel, lastProbe,
                   storeVars, jobVars>>

\* forwardOut is called on this.client: it can hand out a stream only when
\* that Client is ready. No forward is asked for by a call that connects
\* directly.
FwdPossible(fwd) ==
    IF fwd = "ok" /\ clientTunnel /\ isConnected /\ tunnelClient # 0
    THEN sessions[tunnelClient] = "ready" ELSE TRUE

NoProbe ==
    [op |-> "none", host |-> 0, holdsTunnel |-> FALSE, connected |-> FALSE,
     fwd |-> "ok", api |-> "ok", via |-> "direct", thrown |-> FALSE,
     online |-> FALSE, identity |-> "", neighbors |-> <<>>,
     opened |-> FALSE, closed |-> FALSE, raised |-> "none", error |-> "none"]

ProbeRecord(op, host, fwd, api, c, lib) ==
    [NoProbe EXCEPT !.op = op, !.host = host, !.holdsTunnel = clientTunnel,
                    !.connected = isConnected, !.fwd = fwd, !.api = api,
                    !.via = c.via, !.raised = Raised(c, api),
                    !.opened = ChannelOpened(c, api),
                    !.closed = ChannelOpened(c, api) /\ ChannelClosed(c, lib)]

\* One call of client.testConnection(host).
ProbeTestConnection ==
    \E host \in IPs, fwd \in FwdOutcomes, api \in ApiOutcomes, lib \in BOOLEAN :
        LET c == Connect(clientTunnel, tunnelClient # 0, isConnected, fwd, api)
            r == TestConnection(c, api)
        IN /\ FwdPossible(fwd)
           /\ lib \in LibChoices(c)
           /\ lastProbe' = [ProbeRecord("testConnection", host, fwd, api, c, lib)
                               EXCEPT !.thrown = r.thrown, !.error = r.error,
                                      !.online = r.online]
           /\ UNCHANGED <<clientTunnel, tunnelVars, storeVars, jobVars>>

\* One call of client.getSystemInfo(host).
ProbeGetSystemInfo ==
    \E host \in IPs, fwd \in FwdOutcomes, api \in ApiOutcomes,
       identity \in Identities, lib \in BOOLEAN :
        LET c == Connect(clientTunnel, tunnelClient # 0, isConnected, fwd, api)
            r == GetSystemInfo(c, api, identity)
        IN /\ FwdPossible(fwd)
           /\ lib \in LibChoices(c)
           /\ lastProbe' = [ProbeRecord("getSystemInfo", host, fwd, api, c, lib)
                               EXCEPT !.thrown = r.thrown, !.error = r.error,
                                      !.identity = r.identity]
           /\ UNCHANGED <<clientTunnel, tunnelVars, storeVars, jobVars>>

\* One call of client.getOSPFNeighbors(host).
ProbeGetOSPFNeighbors ==
    \E host \in IPs, fwd \in FwdOutcomes, api \in ApiOutcomes,
       rows \in ScanNeighborLists, lib \in BOOLEAN :
        LET c == Connect(clientTunnel, tunnelClient # 0, isConnected, fwd, api)
            r == GetOSPFNeighbors(c, api, rows)
        IN /\ FwdPossible(fwd)
           /\ lib \in LibChoices(c)
           /\ lastProbe' = [ProbeRecord("getOSPFNeighbors", host, fwd, api, c, lib)
                               EXCEPT !.thrown = r.thrown, !.error = r.error,
                                      !.neighbors = r.neighbors]
           /\ UNCHANGED <<clientTunnel, tunnelVars, storeVars, jobVars>>

-----------------------------------------------------------------------------
(* Initial states *)

Jobs == 1..MaxScans

Subs == 1..MaxSubscribers

\* A progress request not made yet. state: "idle", "open" (in the job's
\* client list), "closed" (the request closed) or "ended" (res.end() was
\* called). since: how many events the job had published when it subscribed.
NoSubscriber == [state |-> "idle", job |-> 0, since |-> 0, received |-> <<>>]

\* The locals of one run of scanSubnet and of its background task.
\* fatalAt: the iteration in which a probe threw into scanSubnet's catch
\* (0: none did). History kept beside them: answered, the number of
\* addresses whose testConnection returned true; fetchFailed, whether the
\* latest getOSPFNeighbors of the job answered [] because its call failed.
NoCur ==
    [identity |-> "", neighbors |-> <<>>, existing |-> 0, asymmetries |-> 0,
     edges |-> 0, fatalAt |-> 0, answered |-> 0, fetchFailed |-> FALSE]

InitCommon ==
    /\ routers = <<>>
    /\ nextId = 1
    /\ scans = <<>>
    /\ pc = [j \in Jobs |-> "none"]
    /\ idx = [j \in Jobs |-> 0]
    /\ found = [j \in Jobs |-> <<>>]
    /\ cur = [j \in Jobs |-> NoCur]
    /\ events = [j \in Jobs |-> <<>>]
    /\ probed = [j \in Jobs |-> <<>>]
    /\ responses = {}
    /\ lastProbe = NoProbe
    /\ clients = [j \in Jobs |-> <<>>]
    /\ subscribers = [s \in Subs |-> NoSubscriber]
    /\ connLog = {}

\* new SSHTunnelManager(): no client, not connected.
InitTunnel ==
    /\ tunnelClient = 0
    /\ isConnected = FALSE
    /\ sessions = <<>>
    /\ tunnelHost = ""
    /\ sessionHost = <<>>

-----------------------------------------------------------------------------
(* POST /api/scans, its background task and NetworkScanner.scanSubnet *)

\* The subnet strings a request may carry:
\*   "bad-syntax"  fails insertScanSchema's regex (e.g. "10.0.0.0")
\*   "not-a-cidr"  passes the regex, is no CIDR (e.g. "999.0.0.0/99")
\*   "too-large"   a CIDR of more than 1024 addresses (e.g. "10.0.0.0/8")
\*   "pair"        a block enumerating the addresses 1, 2
\*   "single"      a block enumerating the address 2
\*   "max"         a /22 block: 1024 addresses, none of them a host of IPs
RequestSubnets == {"bad-syntax", "not-a-cidr", "too-large", "pair", "single"}

\* The requests that try the size limit.
BoundarySubnets == {"max", "too-large", "single"}

\* Only the hosts of IPs run a RouterOS API; a connection to any other
\* address is refused or times out.
ApiChoices(ip) == IF ip \in IPs THEN ApiOutcomes ELSE {"refused"}

\* The status field of the request body: "" when the body has none.
BodyStatuses == {"", "completed"}

\* insertScanSchema: subnet must match /^(\d{1,3}\.){3}\d{1,3}\/\d{1,2}$/.
MatchesSchema(s) == s # "bad-syntax"

\* new CIDR(subnet) accepts it (ip-cidr throws on an invalid address).
IsCidr(s) == s \notin {"bad-syntax", "not-a-cidr"}

\* cidr.toArray()
Enumerate(s) ==
    CASE s = "pair" -> <<1, 2>>
      [] s = "single" -> <<2>>
      [] s = "max" -> [k \in 1..1024 |-> k + 2]
      [] OTHER -> <<>>

\* ips.length; of the blocks too large to scan the model takes the smallest
\* count above the limit.
TotalIps(s) == IF s = "too-large" THEN 1025 ELSE Len(Enumerate(s))

TooLargeInclusive(s) == TotalIps(s) >= MaxSubnetIps

\* if (totalIps > 1024) throw
TooLarge(s) == TotalIps(s) > MaxSubnetIps

\* Math.floor(((i + 1) / totalIps) * 100), i counted from 1 here.
ProgressOf(i, total) == (i * 100) \div total

\* One progress event. from: "scanner" (handed to onProgress by scanSubnet)
\* or "route" (written by the background task). currentIp is 0 and
\* asymmetriesFound is -1 in an event that does not carry the field.
Event(status, progress, routersFound, from) ==
    [status |-> status, progress |-> progress, routersFound |-> routersFound,
     from |-> from, currentIp |-> 0, asymmetriesFound |-> -1]

\* onProgress({ progress, status: "scanning", routersFound, currentIp: ip })
ScanningEvent(i, ips, nfound) ==
    [Event("scanning", ProgressOf(i, Len(ips)), nfound, "scanner")
        EXCEPT !.currentIp = ips[i]]

\* The background task's { progress: 100, status: "completed",
\* routersFound: result.count, asymmetriesFound: asymmetricRoutes.length }
RouteCompletedEvent(count, asymmetries) ==
    [Event("completed", 100, count, "route") EXCEPT !.asymmetriesFound = asymmetries]

\* insertScanSchema keeps a status the body carries; the column defaults to
\* "pending".
NewScan(s, b) ==
    [subnet |-> s, status |-> IF b = "" THEN "pending" ELSE b,
     routersFound |-> 0, asymmetriesFound |-> 0, completed |-> FALSE]

\* Jobs run one after another: a request arrives when no job is running.
NoJobRunning == \A j \in 1..Len(scans) : pc[j] = "done"

\* client.write(`data: ...`) to every Response in the job's client list.
DeliverNewestFirst(j, ev) ==
    subscribers' = [s \in Subs |->
        IF \E k \in 1..Len(clients[j]) : clients[j][k] = s
        THEN [subscribers[s] EXCEPT !.received = <<ev>> \o @]
        ELSE subscribers[s]]

InClients(j, s) == \E k \in 1..Len(clients[j]) : clients[j][k] = s

Deliver(j, ev) ==
    subscribers' = [s \in Subs |->
        IF InClients(j, s)
        THEN [subscribers[s] EXCEPT !.received = Append(@, ev)]
        ELSE subscribers[s]]

\* The terminal write: client.write, client.end() for every Response of
\* the job, then scanProgressClients.delete(scan.id).
DeliverAndEnd(j, ev) ==
    /\ subscribers' = [s \in Subs |->
           IF InClients(j, s)
           THEN [subscribers[s] EXCEPT !.received = Append(@, ev),
                                       !.state = "ended"]
           ELSE subscribers[s]]
    /\ clients' = [clients EXCEPT ![j] = <<>>]

\* The handler of POST /api/scans up to the start of the background task,
\* for requests drawn from S: at most `limit` of them, overlapping the
\* running jobs or not.
PostScanOf(S, limit, overlap) ==
    \E s \in S, b \in BodyStatuses :
        /\ Len(scans) < limit
        /\ IF overlap THEN TRUE ELSE NoJobRunning
        /\ IF ~MatchesSchema(s)
           THEN /\ responses' = responses \cup {[subnet |-> s, code |-> 400]}
                /\ UNCHANGED <<scans, pc>>
           ELSE /\ scans' = Append(scans, NewScan(s, b))
                /\ pc' = [pc EXCEPT ![Len(scans) + 1] = "start"]
                /\ responses' = responses \cup {[subnet |-> s, code |-> 200]}
        /\ UNCHANGED <<idx, found, cur, events, probed, storeVars, tunnelVars,
                       clientTunnel, lastProbe, sinkVars, connLog>>

\* Requests of every kind, one job at a time.
PostScan == PostScanOf(RequestSubnets, MaxScans, FALSE)

\* await storage.updateScan(scan.id, { status: "scanning" })
BeginScan(j) ==
    /\ pc[j] = "start"
    /\ scans' = [scans EXCEPT ![j].status = "scanning"]
    /\ pc' = [pc EXCEPT ![j] = "enter"]
    /\ UNCHANGED <<idx, found, cur, events, probed, responses, storeVars,
                   tunnelVars, clientTunnel, lastProbe, sinkVars, connLog>>

ThrowInScanSwallowed(j, at) ==
    /\ events' = [events EXCEPT ![j] = Append(@, Event("error", 0, 0, "scanner"))]
    /\ Deliver(j, Event("error", 0, 0, "scanner"))
    /\ cur' = [cur EXCEPT ![j].fatalAt = at]
    /\ pc' = [pc EXCEPT ![j] = "analyze"]

ThrowInScanUnhandled(j, at) ==
    /\ events' = [events EXCEPT ![j] = Append(@, Event("error", 0, 0, "scanner"))]
    /\ Deliver(j, Event("error", 0, 0, "scanner"))
    /\ cur' = [cur EXCEPT ![j].fatalAt = at]
    /\ pc' = [pc EXCEPT ![j] = "aborted"]

\* scanSubnet's catch block: the error event through onProgress, then the
\* rethrow into the background task's catch. at: the iteration whose probe
\* threw, 0 when the subnet was refused before the loop.
ThrowInScan(j, at) ==
    /\ events' = [events EXCEPT ![j] = Append(@, Event("error", 0, 0, "scanner"))]
    /\ Deliver(j, Event("error", 0, 0, "scanner"))
    /\ cur' = [cur EXCEPT ![j].fatalAt = at]
    /\ pc' = [pc EXCEPT ![j] = "fail"]

StartIterationOverlapped(j, i, nfound) ==
    LET ips == Enumerate(scans[j].subnet)
        last == IF i < Len(ips) THEN i + 1 ELSE i
    IN /\ idx' = [idx EXCEPT ![j] = i]
       /\ events' = [events EXCEPT ![j] = Append(@, ScanningEvent(i, ips, nfound))]
       /\ Deliver(j, ScanningEvent(i, ips, nfound))
       /\ probed' = [probed EXCEPT ![j] = @ \o SubSeq(ips, i, last)]
       /\ pc' = [pc EXCEPT ![j] = "test"]

\* The head of iteration i: the "scanning" event, then testConnection(ip)
\* is called.
StartIteration(j, i, nfound) ==
    LET ips == Enumerate(scans[j].subnet)
    IN /\ idx' = [idx EXCEPT ![j] = i]
       /\ events' = [events EXCEPT ![j] = Append(@, ScanningEvent(i, ips, nfound))]
       /\ Deliver(j, ScanningEvent(i, ips, nfound))
       /\ probed' = [probed EXCEPT ![j] = Append(@, ips[i])]
       /\ pc' = [pc EXCEPT ![j] = "test"]

\* The loop is over: the "completed" event through onProgress, and the
\* return to the background task.
FinishLoop(j, nfound) ==
    /\ events' = [events EXCEPT ![j] = Append(@, Event("completed", 100, nfound, "scanner"))]
    /\ Deliver(j, Event("completed", 100, nfound, "scanner"))
    /\ pc' = [pc EXCEPT ![j] = "analyze"]
    /\ UNCHANGED <<idx, probed>>

\* The end of iteration i: the next iteration, or the end of the loop.
NextIteration(j, nfound) ==
    IF idx[j] < Len(Enumerate(scans[j].subnet))
    THEN StartIteration(j, idx[j] + 1, nfound)
    ELSE FinishLoop(j, nfound)

\* scanSubnet from its call to the first await: the CIDR is parsed and
\* enumerated, the size checked, the first iteration begun.
EnterScan(j) ==
    /\ pc[j] = "enter"
    /\ IF ~IsCidr(scans[j].subnet) \/ TooLarge(scans[j].subnet)
       THEN ThrowInScan(j, 0) /\ UNCHANGED <<idx, probed>>
       ELSE IF Len(Enumerate(scans[j].subnet)) = 0
            THEN FinishLoop(j, 0) /\ UNCHANGED cur
            ELSE StartIteration(j, 1, 0) /\ UNCHANGED cur
    /\ UNCHANGED <<scans, found, responses, storeVars, tunnelVars,
                   clientTunnel, lastProbe, clients, connLog>>

\* The tunnel manager holds a Client whose session is up.
TunnelUp ==
    tunnelClient # 0 /\ isConnected /\ sessions[tunnelClient] = "ready"

\* One device connection opened by the scan or by a rescan.
Logged(by, c) == connLog \cup {[by |-> by, via |-> c.via, tunnelUp |-> TunnelUp]}

\* The forwardOut answers that can matter to this call.
FwdChoices == IF clientTunnel /\ isConnected THEN FwdOutcomes ELSE {"ok"}

\* const isOnline = await this.mikrotikClient.testConnection(ip)
ScanTestConnection(j) ==
    /\ pc[j] = "test"
    /\ \E fwd \in FwdChoices,
          api \in ApiChoices(Enumerate(scans[j].subnet)[idx[j]]) :
        LET ip == Enumerate(scans[j].subnet)[idx[j]]
            c == Connect(clientTunnel, tunnelClient # 0, isConnected, fwd, api)
            r == TestConnection(c, api)
        IN /\ FwdPossible(fwd)
           /\ connLog' = Logged("scan", c)
           /\ IF r.thrown THEN ThrowInScan(j, idx[j]) /\ UNCHANGED <<idx, probed>>
              ELSE IF r.online
                   THEN /\ pc' = [pc EXCEPT ![j] = "info"]
                        /\ cur' = [cur EXCEPT ![j].answered = @ + 1]
                        /\ UNCHANGED <<idx, probed, events, subscribers>>
                   ELSE NextIteration(j, Len(found[j])) /\ UNCHANGED cur
    /\ UNCHANGED <<scans, found, responses, storeVars, tunnelVars,
                   clientTunnel, lastProbe, clients>>

\* const systemInfo = await this.mikrotikClient.getSystemInfo(ip)
ScanGetSystemInfo(j) ==
    /\ pc[j] = "info"
    /\ \E fwd \in FwdChoices, api \in ApiOutcomes, identity \in Identities :
        LET ip == Enumerate(scans[j].subnet)[idx[j]]
            c == Connect(clientTunnel, tunnelClient # 0, isConnected, fwd, api)
            r == GetSystemInfo(c, api, identity)
        IN /\ FwdPossible(fwd)
           /\ connLog' = Logged("scan", c)
           /\ IF r.thrown THEN ThrowInScan(j, idx[j])
              ELSE /\ cur' = [cur EXCEPT ![j].identity = r.identity]
                   /\ pc' = [pc EXCEPT ![j] = "neighbors"]
                   /\ UNCHANGED <<events, subscribers>>
    /\ UNCHANGED <<scans, idx, found, probed, responses, storeVars, tunnelVars,
                   clientTunnel, lastProbe, clients>>

\* const ospfNeighbors = await this.mikrotikClient.getOSPFNeighbors(ip)
ScanGetOSPFNeighbors(j) ==
    /\ pc[j] = "neighbors"
    /\ \E fwd \in FwdChoices, api \in ApiOutcomes, rows \in ScanNeighborLists :
        LET ip == Enumerate(scans[j].subnet)[idx[j]]
            c == Connect(clientTunnel, tunnelClient # 0, isConnected, fwd, api)
            r == GetOSPFNeighbors(c, api, rows)
        IN /\ FwdPossible(fwd)
           /\ connLog' = Logged("scan", c)
           /\ IF r.thrown THEN ThrowInScan(j, idx[j])
              ELSE /\ cur' = [cur EXCEPT ![j].neighbors = r.neighbors,
                                         ![j].fetchFailed = r.failed]
                   /\ pc' = [pc EXCEPT ![j] = "lookup"]
                   /\ UNCHANGED <<events, subscribers>>
    /\ UNCHANGED <<scans, idx, found, probed, responses, storeVars, tunnelVars,
                   clientTunnel, lastProbe, clients>>

\* const existingRouter = await this.storage.getRouterByIp(ip)
ScanGetRouterByIp(j) ==
    /\ pc[j] = "lookup"
    /\ LET ip == Enumerate(scans[j].subnet)[idx[j]]
           k == IndexByIp(routers, ip)
       IN cur' = [cur EXCEPT ![j].existing = IF k = 0 THEN 0 ELSE routers[k].id]
    /\ pc' = [pc EXCEPT ![j] = "upsert"]
    /\ UNCHANGED <<scans, idx, found, events, probed, responses, storeVars,
                   tunnelVars, clientTunnel, lastProbe, sinkVars, connLog>>

UpsertKeepsListWhenNoneFetched(rs, existing, id, ip, info, now) ==
    IF existing # 0
    THEN UpdateRouter(rs, existing,
             [status |-> "online", identity |-> info.identity,
              ospfNeighbors |-> IF info.neighbors = <<>>
                                THEN rs[IndexById(rs, existing)].ospfNeighbors
                                ELSE info.neighbors,
              lastSeen |-> now])
    ELSE CreateRouter(rs, id,
             [ip |-> ip, hostname |-> info.identity, identity |-> info.identity,
              status |-> "online", ospfNeighbors |-> info.neighbors], now)

UpsertAlwaysCreates(rs, existing, id, ip, info, now) ==
    CreateRouter(rs, id,
        [ip |-> ip, hostname |-> info.identity, identity |-> info.identity,
         status |-> "online", ospfNeighbors |-> info.neighbors], now)

\* if (existingRouter) updateRouter(existingRouter.id, ...) else createRouter
Upsert(rs, existing, id, ip, info, now) ==
    IF existing # 0
    THEN UpdateRouter(rs, existing,
             [status |-> "online", identity |-> info.identity,
              ospfNeighbors |-> info.neighbors, lastSeen |-> now])
    ELSE CreateRouter(rs, id,
             [ip |-> ip, hostname |-> info.identity, identity |-> info.identity,
              status |-> "online", ospfNeighbors |-> info.neighbors], now)

\* The update or the create, the push onto `routers`, and the loop's step.
ScanUpsert(j) ==
    /\ pc[j] = "upsert"
    /\ LET ip == Enumerate(scans[j].subnet)[idx[j]]
           existing == cur[j].existing
           pushed == IF existing # 0
                     THEN IF IndexById(routers, existing) # 0
                          THEN Append(found[j], existing) ELSE found[j]
                     ELSE Append(found[j], nextId)
       IN /\ routers' = Upsert(routers, existing, nextId, ip, cur[j], j)
          /\ nextId' = IF existing # 0 THEN nextId ELSE nextId + 1
          /\ found' = [found EXCEPT ![j] = pushed]
          /\ NextIteration(j, Len(pushed))
    /\ cur' = [cur EXCEPT ![j] =
           [NoCur EXCEPT !.answered = cur[j].answered,
                         !.fetchFailed = cur[j].fetchFailed]]
    /\ UNCHANGED <<scans, responses, tunnelVars, clientTunnel, lastProbe,
                   clients, connLog>>

\* await storage.getAsymmetricRoutes(); await storage.getTopologyData()
ScanAnalyze(j) ==
    /\ pc[j] = "analyze"
    /\ cur' = [cur EXCEPT ![j].asymmetries = Len(AsymmetricRoutes(routers)),
                          ![j].edges = Len(TopologyEdges(routers))]
    /\ pc' = [pc EXCEPT ![j] = "complete"]
    /\ UNCHANGED <<scans, idx, found, events, probed, responses, storeVars,
                   tunnelVars, clientTunnel, lastProbe, sinkVars, connLog>>

\* await storage.updateScan(scan.id, { status: "completed", ... })
ScanComplete(j) ==
    /\ pc[j] = "complete"
    /\ scans' = [scans EXCEPT ![j].status = "completed",
                              ![j].completed = TRUE,
                              ![j].routersFound = Len(found[j]),
                              ![j].asymmetriesFound = cur[j].asymmetries]
    /\ pc' = [pc EXCEPT ![j] = "publish"]
    /\ UNCHANGED <<idx, found, cur, events, probed, responses, storeVars,
                   tunnelVars, clientTunnel, lastProbe, sinkVars, connLog>>

\* The terminal "completed" event written to the job's clients, which are
\* then ended and forgotten.
ScanPublishCompleted(j) ==
    /\ pc[j] = "publish"
    /\ events' = [events EXCEPT ![j] =
           Append(@, RouteCompletedEvent(Len(found[j]), cur[j].asymmetries))]
    /\ DeliverAndEnd(j, RouteCompletedEvent(Len(found[j]), cur[j].asymmetries))
    /\ pc' = [pc EXCEPT ![j] = "done"]
    /\ UNCHANGED <<scans, idx, found, cur, probed, responses, storeVars,
                   tunnelVars, clientTunnel, lastProbe, connLog>>

\* catch: await storage.updateScan(scan.id, { status: "error", ... })
ScanFail(j) ==
    /\ pc[j] = "fail"
    /\ scans' = [scans EXCEPT ![j].status = "error", ![j].completed = TRUE]
    /\ pc' = [pc EXCEPT ![j] = "publish_error"]
    /\ UNCHANGED <<idx, found, cur, events, probed, responses, storeVars,
                   tunnelVars, clientTunnel, lastProbe, sinkVars, connLog>>

\* catch: the terminal "error" event written to the job's clients.
ScanPublishError(j) ==
    /\ pc[j] = "publish_error"
    /\ events' = [events EXCEPT ![j] = Append(@, Event("error", 0, 0, "route"))]
    /\ DeliverAndEnd(j, Event("error", 0, 0, "route"))
    /\ pc' = [pc EXCEPT ![j] = "done"]
    /\ UNCHANGED <<scans, idx, found, cur, probed, responses, storeVars,
                   tunnelVars, clientTunnel, lastProbe, connLog>>

JobStep(j) ==
    \/ BeginScan(j)
    \/ EnterScan(j)
    \/ ScanTestConnection(j)
    \/ ScanGetSystemInfo(j)
    \/ ScanGetOSPFNeighbors(j)
    \/ ScanGetRouterByIp(j)
    \/ ScanUpsert(j)
    \/ ScanAnalyze(j)
    \/ ScanComplete(j)
    \/ ScanPublishCompleted(j)
    \/ ScanFail(j)
    \/ ScanPublishError(j)

\* The program as wired: NetworkScanner builds its MikrotikClient without a
\* tunnel (scanner.ts:19).
Init == InitCommon /\ InitTunnel /\ clientTunnel = FALSE

Next == PostScan \/ \E j \in Jobs : JobStep(j)

Spec == Init /\ [][Next]_vars

\* The scan loop driven by a MikrotikClient that holds the tunnel manager
\* (mikrotik.ts:18), with the tunnel's events in any order.
InitTunnelled == InitCommon /\ InitTunnel /\ clientTunnel = TRUE

PostTunnelledScan ==
    PostScanOf({"not-a-cidr", "pair", "single"}, MaxWatchedScans, FALSE)

NextTunnelled ==
    \/ PostTunnelledScan
    \/ \E j \in Jobs : JobStep(j)
    \/ TunnelConnect
    \/ TunnelReady
    \/ TunnelLost
    \/ TunnelDisconnect

SpecTunnelled == InitTunnelled /\ [][NextTunnelled]_vars

-----------------------------------------------------------------------------
(* The probe client on its own: new MikrotikClient(username, password,     *)
(* sshTunnel?) with or without a tunnel manager, probe calls and tunnel    *)
(* events in any order.                                                    *)

InitProbe == InitCommon /\ InitTunnel /\ clientTunnel \in BOOLEAN

NextProbe ==
    \/ TunnelConnect
    \/ TunnelReady
    \/ TunnelLost
    \/ TunnelDisconnect
    \/ ProbeTestConnection
    \/ ProbeGetSystemInfo
    \/ ProbeGetOSPFNeighbors

SpecProbe == InitProbe /\ [][NextProbe]_vars

-----------------------------------------------------------------------------
(* The store on its own: devices created and their neighbor tables         *)
(* rewritten, the two analyses read off every store reached.               *)

TopoNeighborLists == SeqsUpTo(NeighborRec(IPs, TopoCosts), MaxNeighbors)

\* storage.createRouter for an ip the store does not hold yet.
StoreCreateRouter ==
    \E ip \in IPs, rows \in TopoNeighborLists :
        /\ Len(routers) < MaxDevices
        /\ IndexByIp(routers, ip) = 0
        /\ routers' = CreateRouter(routers, nextId,
                          [ip |-> ip, hostname |-> "", identity |-> "",
                           status |-> "online", ospfNeighbors |-> rows], 0)
        /\ nextId' = nextId + 1
        /\ UNCHANGED <<jobVars, tunnelVars, clientTunnel, lastProbe>>

\* storage.updateRouter with a new neighbor table.
StoreUpdateRouter ==
    \E k \in 1..Len(routers), rows \in TopoNeighborLists :
        /\ routers' = UpdateRouter(routers, routers[k].id,
                          [status |-> "online", identity |-> routers[k].identity,
                           ospfNeighbors |-> rows, lastSeen |-> 0])
        /\ UNCHANGED <<nextId, jobVars, tunnelVars, clientTunnel, lastProbe>>

InitStore == InitCommon /\ InitTunnel /\ clientTunnel = FALSE

NextStore == StoreCreateRouter \/ StoreUpdateRouter

SpecStore == InitStore /\ [][NextStore]_vars

-----------------------------------------------------------------------------
(* GET /api/scans/:id/progress: the progress channel of a job               *)

RemoveClientAndRest(cs, s) ==
    SubSeq(cs, 1, (CHOOSE k \in 1..Len(cs) : cs[k] = s) - 1)

\* clients.splice(clients.indexOf(res), 1), when res is in the list.
RemoveClient(cs, s) ==
    LET index == CHOOSE k \in 1..Len(cs) : cs[k] = s
    IN SubSeq(cs, 1, index - 1) \o SubSeq(cs, index + 1, Len(cs))

\* The handler: the Response is pushed onto the client list of the scan id
\* asked for, whether or not a job of that id exists or still runs.
\* Responses are numbered in the order the requests arrive.
Subscribe ==
    \E s \in Subs, j \in Jobs :
        /\ subscribers[s].state = "idle"
        /\ \A r \in 1..(s - 1) : subscribers[r].state # "idle"
        /\ clients' = [clients EXCEPT ![j] = Append(@, s)]
        /\ subscribers' = [subscribers EXCEPT ![s] =
               [state |-> "open", job |-> j, since |-> Len(events[j]),
                received |-> <<>>]]
        /\ UNCHANGED <<scans, pc, idx, found, cur, events, probed, responses,
                       connLog, storeVars, tunnelVars, clientTunnel, lastProbe>>

\* req.on("close") of a Response still in its list: it is spliced out (and
\* the map entry deleted when the list is empty).
Disconnect ==
    \E s \in Subs :
        /\ subscribers[s].state = "open"
        /\ clients' = [clients EXCEPT ![subscribers[s].job] = RemoveClient(@, s)]
        /\ subscribers' = [subscribers EXCEPT ![s].state = "closed"]
        /\ UNCHANGED <<scans, pc, idx, found, cur, events, probed, responses,
                       connLog, storeVars, tunnelVars, clientTunnel, lastProbe>>

-----------------------------------------------------------------------------
(* POST /api/routers/:id/rescan                                              *)

\* The handler for a known router: its own MikrotikClient (built without a
\* tunnel where clientTunnel is FALSE); online: the three probes and the
\* update; offline, or a probe that throws: status offline and lastSeen.
Rescan ==
    \E k \in 1..Len(routers), fwd1 \in FwdChoices, api1 \in ApiOutcomes :
      LET router == routers[k]
          c1 == Connect(clientTunnel, tunnelClient # 0, isConnected, fwd1, api1)
          isOnline == TestConnection(c1, api1)
          made2 == ~isOnline.thrown /\ isOnline.online
      IN
      \* the answers to calls that are not made, or whose reply is not read,
      \* are not enumerated
      /\ FwdPossible(fwd1)
      /\ IF c1.out = "fatal" THEN api1 = "ok" ELSE TRUE
      /\ \E fwd2 \in IF made2 THEN FwdChoices ELSE {"ok"},
            api2 \in IF made2 THEN ApiOutcomes ELSE {"ok"},
            identity \in IF made2 THEN Identities ELSE {""} :
        LET c2 == Connect(clientTunnel, tunnelClient # 0, isConnected, fwd2, api2)
            systemInfo == GetSystemInfo(c2, api2, identity)
            made3 == made2 /\ ~systemInfo.thrown
        IN
        /\ IF made2 THEN FwdPossible(fwd2) ELSE TRUE
        /\ IF c2.out = "fatal" THEN api2 = "ok" ELSE TRUE
        /\ IF Raised(c2, api2) = "none" THEN TRUE ELSE identity = ""
        /\ \E fwd3 \in IF made3 THEN FwdChoices ELSE {"ok"},
              api3 \in IF made3 THEN ApiOutcomes ELSE {"ok"},
              rows \in IF made3 THEN ScanNeighborLists ELSE {<<>>} :
          LET c3 == Connect(clientTunnel, tunnelClient # 0, isConnected, fwd3, api3)
              ospfNeighbors == GetOSPFNeighbors(c3, api3, rows)
              now == Len(scans)
              offline == [status |-> "offline", identity |-> router.identity,
                          ospfNeighbors |-> router.ospfNeighbors, lastSeen |-> now]
          IN
           /\ IF made3 THEN FwdPossible(fwd3) ELSE TRUE
           /\ IF c3.out = "fatal" THEN api3 = "ok" ELSE TRUE
           /\ IF Raised(c3, api3) = "none" THEN TRUE ELSE rows = <<>>
           /\ routers' =
                IF isOnline.thrown THEN UpdateRouter(routers, router.id, offline)
                ELSE IF ~isOnline.online THEN UpdateRouter(routers, router.id, offline)
                ELSE IF systemInfo.thrown \/ ospfNeighbors.thrown
                     THEN UpdateRouter(routers, router.id, offline)
                     ELSE UpdateRouter(routers, router.id,
                              [status |-> "online", identity |-> systemInfo.identity,
                               ospfNeighbors |-> ospfNeighbors.neighbors,
                               lastSeen |-> now])
           /\ connLog' = Logged("rescan", c1)
           /\ UNCHANGED <<nextId, scans, pc, idx, found, cur, events, probed,
                          responses, sinkVars, tunnelVars, clientTunnel, lastProbe>>

-----------------------------------------------------------------------------
(* Jobs that overlap: a request arrives while another job still runs.       *)

PostOverlappingScan == PostScanOf({"not-a-cidr", "single"}, MaxScans, TRUE)

InitConcurrent == Init

NextConcurrent == PostOverlappingScan \/ \E j \in Jobs : JobStep(j)

SpecConcurrent == InitConcurrent /\ [][NextConcurrent]_vars

-----------------------------------------------------------------------------
(* One job and the subscribers of progress channels. The client holds no    *)
(* tunnel, or holds the manager of a session that is up.                    *)

PostWatchedScan == PostScanOf({"single", "too-large"}, MaxWatchedScans, FALSE)

InitProgress ==
    /\ InitCommon
    /\ clientTunnel \in BOOLEAN
    /\ IF clientTunnel
       THEN /\ tunnelClient = 1 /\ isConnected = TRUE /\ sessions = <<"ready">>
            /\ tunnelHost = GatewayHost /\ sessionHost = <<GatewayHost>>
       ELSE InitTunnel

NextProgress ==
    \/ PostWatchedScan
    \/ \E j \in Jobs : JobStep(j)
    \/ Subscribe
    \/ Disconnect

SpecProgress == InitProgress /\ [][NextProgress]_vars

\* The background task of a job is an async function on the event loop:
\* each of its awaits resolves, given that every probe returns or throws
\* within its timeout.
SpecProgressFair == SpecProgress /\ \A j \in Jobs : WF_vars(JobStep(j))

-----------------------------------------------------------------------------
(* The program as wired, beside a tunnel manager that comes up: scans,     *)
(* rescans and the tunnel's connect() and ready events in any order.       *)

PostWiredScan == PostScanOf({"not-a-cidr", "single"}, MaxWatchedScans, FALSE)

InitWired == Init

NextWired ==
    \/ PostWiredScan
    \/ \E j \in Jobs : JobStep(j)
    \/ Rescan
    \/ TunnelConnect
    \/ TunnelReady

SpecWired == InitWired /\ [][NextWired]_vars

-----------------------------------------------------------------------------
(* Requests at the size limit of scanSubnet.                                *)

PostBoundaryScan == PostScanOf(BoundarySubnets, MaxScans, FALSE)

InitBoundary == Init

NextBoundary == PostBoundaryScan \/ \E j \in Jobs : JobStep(j)

SpecBoundary == InitBoundary /\ [][NextBoundary]_vars

-----------------------------------------------------------------------------
(* DELETE /api/routers/:id beside the scans                                *)

\* storage.deleteRouter(id)
DeleteRouter(rs, id) == SelectSeq(rs, LAMBDA row : row.id # id)

\* The handler, for the id of a stored router.
DeleteRouterRequest ==
    \E k \in 1..Len(routers) :
        /\ routers' = DeleteRouter(routers, routers[k].id)
        /\ UNCHANGED <<nextId, jobVars, tunnelVars, clientTunnel, lastProbe>>

PostScanBesideDeletes == PostScanOf({"not-a-cidr", "single"}, MaxScans, FALSE)

InitDelete == Init

NextDelete ==
    \/ PostScanBesideDeletes
    \/ \E j \in Jobs : JobStep(j)
    \/ DeleteRouterRequest

SpecDelete == InitDelete /\ [][NextDelete]_vars

-----------------------------------------------------------------------------
(* Rescans by a MikrotikClient that holds the tunnel manager, beside one   *)
(* scan and a tunnel that comes up: connect() and ready events in any      *)
(* order.                                                                  *)

PostScanBesideRescans == PostScanOf({"single"}, MaxWatchedScans, FALSE)

InitRescan == InitTunnelled

NextRescan ==
    \/ PostScanBesideRescans
    \/ \E j \in Jobs : JobStep(j)
    \/ Rescan
    \/ TunnelConnect
    \/ TunnelReady

SpecRescan == InitRescan /\ [][NextRescan]_vars

-----------------------------------------------------------------------------
(* One job over two addresses, as wired, and the subscribers of progress   *)
(* channels.                                                               *)

PostFannedOutScan == PostScanOf({"not-a-cidr", "pair"}, MaxWatchedScans, FALSE)

InitFanOut == Init

NextFanOut ==
    \/ PostFannedOutScan
    \/ \E j \in Jobs : JobStep(j)
    \/ Subscribe
    \/ Disconnect

SpecFanOut == InitFanOut /\ [][NextFanOut]_vars

-----------------------------------------------------------------------------
(* Properties *)

CreatedJobs == 1..Len(scans)

\* C1: with a connected tunnel session, a forward to one host that is
\* refused or times out is an ordinary unreachable device: the probe
\* operation returns its "offline" value (false, {}, []) and throws no
\* fatal tunnel error. (SpecProbe)
C1_ForwardFailureIsOrdinary ==
    (/\ lastProbe.op # "none"
     /\ lastProbe.holdsTunnel
     /\ lastProbe.connected
     /\ lastProbe.fwd = "refused")
    => (/\ ~lastProbe.thrown
        /\ ~lastProbe.online
        /\ lastProbe.identity = ""
        /\ lastProbe.neighbors = <<>>)

\* C2: a client configured with a tunnel whose session is not connected at
\* the time of a probe throws the fatal tunnel error from every probe
\* operation: it neither returns the ordinary "offline" value nor connects
\* directly. (SpecProbe)
C2_BrokenTunnelIsFatal ==
    (/\ lastProbe.op # "none"
     /\ lastProbe.holdsTunnel
     /\ ~lastProbe.connected)
    => (lastProbe.thrown /\ lastProbe.via # "direct")

\* The transitions pending -> scanning -> {completed, error}.
StatusMoves ==
    {<<"pending", "scanning">>, <<"scanning", "completed">>,
     <<"scanning", "error">>}

\* C3: the persisted status of every ScanJob starts at pending and changes
\* only along pending -> scanning -> completed | error; a terminal status is
\* never overwritten by another value. (Spec)
C3_StatusStartsPendingAndMovesForward ==
    [][\A j \in 1..Len(scans') :
          IF j > Len(scans)
          THEN scans'[j].status = "pending"
          ELSE \/ scans'[j].status = scans[j].status
               \/ <<scans[j].status, scans'[j].status>> \in StatusMoves]_vars

\* C4: when a probe throws the fatal tunnel error in iteration i of a scan,
\* the error reaches the caller of scanSubnet (the background task's catch),
\* no address after the i-th is probed, an error progress event is
\* published, and the job's persisted status becomes error. (SpecTunnelled)
C4_FatalErrorAbortsScan ==
    \A j \in CreatedJobs :
        cur[j].fatalAt > 0 =>
            /\ pc[j] \in {"fail", "publish_error", "done"}
            /\ probed[j] = SubSeq(Enumerate(scans[j].subnet), 1, cur[j].fatalAt)
            /\ \E k \in 1..Len(events[j]) : events[j][k].status = "error"
            /\ pc[j] \in {"publish_error", "done"} => scans[j].status = "error"

\* A scan of two addresses that threw at the first has finished.
C4_Witness ==
    \E j \in CreatedJobs :
        /\ cur[j].fatalAt = 1
        /\ Len(Enumerate(scans[j].subnet)) = 2
        /\ pc[j] = "done"

\* The subnet passes scanSubnet's checks: the scan loop runs.
Accepted(s) == IsCidr(s) /\ ~TooLarge(s)

\* C5: a scan whose probe failures are all ordinary (the client holds no
\* tunnel, so every failure is a refused connection, a timeout, a failed
\* login or a bad reply) probes every enumerated address and ends
\* completed; once scanning, its status is never error. (Spec)
C5_OrdinaryFailuresNeverFailTheJob ==
    \A j \in CreatedJobs :
        Accepted(scans[j].subnet) =>
            /\ pc[j] \notin {"fail", "publish_error"}
            /\ pc[j] \notin {"start"} => scans[j].status # "error"
            /\ pc[j] \in {"analyze", "complete", "publish", "done"}
                   => probed[j] = Enumerate(scans[j].subnet)
            /\ pc[j] = "done" => scans[j].status = "completed"

\* A finished scan of two addresses in which an address was unreachable.
C5_Witness ==
    \E j \in CreatedJobs :
        /\ pc[j] = "done"
        /\ Len(probed[j]) = 2
        /\ Len(found[j]) < 2
        /\ scans[j].status = "completed"

\* C6: a request whose subnet is malformed or enumerates to more than 1024
\* addresses creates no ScanJob record and opens no probe connection. (Spec)
C6_RefusedSubnetCreatesNoJob ==
    \A j \in CreatedJobs :
        /\ Accepted(scans[j].subnet)
        /\ ~Accepted(scans[j].subnet) => probed[j] = <<>>

Devices == 1..Len(routers)

\* Device a holds a neighbor row whose neighborIp is device b's ip.
Lists(a, b) == FirstNeighborTo(routers[a], routers[b].ip) # 0

\* The edges getTopologyData returns between devices a and b.
EdgesBetween(a, b) ==
    {k \in 1..Len(TopologyEdges(routers)) :
        {TopologyEdges(routers)[k].source, TopologyEdges(routers)[k].target}
            = {routers[a].id, routers[b].id}}

\* C7: for every two distinct devices A and B the topology holds an edge
\* between them if and only if A lists B and B lists A; one direction alone
\* gives no edge. (SpecStore)
C7_EdgeIffBothDirections ==
    \A a \in Devices, b \in Devices :
        a # b => ((EdgesBetween(a, b) # {}) <=> (Lists(a, b) /\ Lists(b, a)))

\* The routes getAsymmetricRoutes returns for devices a and b.
RoutesBetween(a, b) ==
    {k \in 1..Len(AsymmetricRoutes(routers)) :
        {AsymmetricRoutes(routers)[k].router1Id,
         AsymmetricRoutes(routers)[k].router2Id} = {routers[a].id, routers[b].id}}

\* The cost device a reports towards device b: that of its first row
\* pointing at b.
CostTo(a, b) ==
    routers[a].ospfNeighbors[FirstNeighborTo(routers[a], routers[b].ip)].cost

\* C8: for every two devices that list each other with costs c1 and c2:
\* no AsymmetricRoute when c1 = c2; when c1 # c2 a route with
\* difference = |c1 - c2| whose severity is high iff difference > 50,
\* medium iff 21 <= difference <= 50, low iff 1 <= difference <= 20.
\* (SpecStore)
C8_DifferenceAndSeverity ==
    \A a \in Devices, b \in Devices :
        (a # b /\ Lists(a, b) /\ Lists(b, a)) =>
            LET c1 == CostTo(a, b)
                c2 == CostTo(b, a)
                d == Abs(c1 - c2)
                found2 == RoutesBetween(a, b)
            IN IF c1 = c2 THEN found2 = {}
               ELSE /\ found2 # {}
                    /\ \A k \in found2 :
                         LET r == AsymmetricRoutes(routers)[k]
                         IN /\ r.difference = d
                            /\ (r.severity = "high") <=> (d > 50)
                            /\ (r.severity = "medium") <=> (21 <= d /\ d <= 50)
                            /\ (r.severity = "low") <=> (1 <= d /\ d <= 20)
                            /\ r.severity \in {"low", "medium", "high"}

\* Two devices list each other with costs 50 apart, the upper end of medium.
C8_Witness ==
    \E a \in Devices, b \in Devices :
        /\ a # b /\ Lists(a, b) /\ Lists(b, a)
        /\ Abs(CostTo(a, b) - CostTo(b, a)) = 50
        /\ \E k \in RoutesBetween(a, b) :
               AsymmetricRoutes(routers)[k].severity = "medium"

\* The store of the end-to-end scenario: exactly two devices, .1 listing .2
\* at cost 10 and .2 listing .1 at cost 35.
Scenario ==
    /\ Len(routers) = 2
    /\ \E a \in Devices, b \in Devices :
        /\ routers[a].ip = 1
        /\ routers[a].ospfNeighbors = <<[neighborIp |-> 2, cost |-> 10]>>
        /\ routers[b].ip = 2
        /\ routers[b].ospfNeighbors = <<[neighborIp |-> 1, cost |-> 35]>>

\* C9: in the scenario's store getTopologyData returns exactly one edge
\* between the two nodes, with isAsymmetric = true, and getAsymmetricRoutes
\* returns exactly one route, with difference 25 and severity medium. (Spec)
C9_ScenarioOneAsymmetricEdge ==
    Scenario =>
        /\ Len(TopologyEdges(routers)) = 1
        /\ TopologyEdges(routers)[1].isAsymmetric
        /\ Len(AsymmetricRoutes(routers)) = 1
        /\ AsymmetricRoutes(routers)[1].difference = 25
        /\ AsymmetricRoutes(routers)[1].severity = "medium"

\* C10: after scans run one after another the store holds at most one
\* Device per IP, and a Device found by two scans is one record under one
\* id. (Spec)
C10_OneDevicePerIp ==
    /\ \A a \in Devices, b \in Devices :
          a # b => (routers[a].ip # routers[b].ip /\ routers[a].id # routers[b].id)
    /\ \A j \in CreatedJobs :
          \A k \in 1..Len(found[j]) : IndexById(routers, found[j][k]) # 0

\* The second scan has found, and so rewritten, a Device of the first.
C10_Witness ==
    /\ Len(scans) = 2
    /\ pc[2] = "done"
    /\ \E k1 \in 1..Len(found[1]), k2 \in 1..Len(found[2]) :
          found[1][k1] = found[2][k2]

-----------------------------------------------------------------------------
(* Properties of concurrent jobs, progress channels, the tunnel manager    *)
(* and the size limit                                                       *)

\* C11: when scan jobs whose address lists overlap run concurrently, under
\* every interleaving of their probe and store steps the store holds at
\* most one Device per IP. (SpecConcurrent)
C11_ConcurrentScansOneDevicePerIp ==
    \A a \in Devices, b \in Devices : a # b => routers[a].ip # routers[b].ip

TerminalStatuses == {"completed", "error"}

\* C12: once a subscriber has received an event whose status is completed
\* or error it receives no further event: a terminal event is the last
\* event written to it. (SpecProgress)
C12_TerminalEventIsLast ==
    \A s \in Subs :
        \A k \in 1..Len(subscribers[s].received) :
            subscribers[s].received[k].status \in TerminalStatuses
                => k = Len(subscribers[s].received)

\* The error events written to subscriber s.
ErrorEvents(s) ==
    {k \in 1..Len(subscribers[s].received) :
        subscribers[s].received[k].status = "error"}

\* C13: when a probe's fatal error aborts a scan, the failure is reported
\* once: the job's status becomes error and every subscriber of the job
\* receives exactly one error event. (SpecProgress)
C13_FatalErrorReportedOnce ==
    \A j \in CreatedJobs :
        cur[j].fatalAt > 0 =>
            /\ pc[j] = "done" => scans[j].status = "error"
            /\ \A s \in Subs :
                  subscribers[s].job = j =>
                      /\ Cardinality(ErrorEvents(s)) <= 1
                      /\ subscribers[s].state = "ended"
                            => Cardinality(ErrorEvents(s)) = 1

\* The events job j has published since subscriber s subscribed.
EventsSince(s) ==
    SubSeq(events[subscribers[s].job], subscribers[s].since + 1,
           Len(events[subscribers[s].job]))

IsPrefix(p, q) == Len(p) <= Len(q) /\ p = SubSeq(q, 1, Len(p))

\* Every subscriber still connected, or ended by the job, has received
\* every event of its job since it subscribed, in order; one that
\* disconnected is out of the client list and has a prefix of them.
SubscribersServed ==
    \A s \in Subs :
        CASE subscribers[s].state = "open" ->
                 /\ InClients(subscribers[s].job, s)
                 /\ subscribers[s].received = EventsSince(s)
          [] subscribers[s].state = "ended" ->
                 /\ ~InClients(subscribers[s].job, s)
                 /\ subscribers[s].received = EventsSince(s)
                 /\ pc[subscribers[s].job] = "done"
          [] subscribers[s].state = "closed" ->
                 /\ ~InClients(subscribers[s].job, s)
                 /\ IsPrefix(subscribers[s].received, EventsSince(s))
          [] OTHER -> \A j \in Jobs : ~InClients(j, s)

\* A step in which subscriber s disconnects.
Disconnects(s) ==
    subscribers[s].state = "open" /\ subscribers'[s].state = "closed"

\* C14: when a subscriber disconnects it leaves the fan-out set, the other
\* subscribers keep their place and go on receiving every event of the job
\* in order up to the terminal one, and the job, its events and its status
\* are untouched by the step. (SpecProgress)
C14_DisconnectLeavesOthersAndJob ==
    /\ []SubscribersServed
    /\ [][\A s \in Subs :
            Disconnects(s) =>
                /\ UNCHANGED <<scans, pc, idx, found, cur, events, probed, routers>>
                /\ \A r \in Subs \ {s} : subscribers'[r] = subscribers[r]
                /\ \A j \in Jobs :
                      clients'[j] = SelectSeq(clients[j], LAMBDA r : r # s)]_vars

\* Two subscribers of one job: one disconnected part-way, the other was
\* served to the end of the job, which completed.
C14_Witness ==
    \E s \in Subs, r \in Subs :
        /\ s # r
        /\ subscribers[s].job = subscribers[r].job
        /\ subscribers[s].state = "closed"
        /\ subscribers[r].state = "ended"
        /\ subscribers[r].since <= subscribers[s].since
        /\ Len(subscribers[s].received) >= 1
        /\ subscribers[r].since + Len(subscribers[r].received)
              > subscribers[s].since + Len(subscribers[s].received) + 1
        /\ scans[subscribers[r].job].status = "completed"

\* C15: connect() while a session is connected creates no session, and
\* connect() calls that overlap leave a single session: at no time are two
\* sessions of the manager connecting or connected. (SpecProbe)
C15_SingleTunnelSession ==
    Cardinality({s \in 1..Len(sessions) :
                    sessions[s] \in {"connecting", "ready"}}) <= 1

\* C16: while the tunnel is connected every device connection opened by a
\* scan or by a rescan goes through the tunnel's forwardConnection, none
\* directly. (SpecWired)
C16_ConnectionsUseTheTunnel ==
    \A c \in connLog : c.tunnelUp => c.via = "tunnel"

\* C17: every channel a probe operation opened, direct or forwarded, is
\* closed when the operation returns or throws. (SpecProbe)
C17_ChannelClosedOnEveryPath ==
    (lastProbe.op # "none" /\ lastProbe.opened) => lastProbe.closed

LoopOver(j) == pc[j] \in {"analyze", "complete", "publish", "done"}

\* C18: when a scan probes the address of a Device that an earlier scan
\* stored and finds it unreachable, the Device is marked offline (and the
\* scan goes on to the end of its addresses). (Spec)
C18_UnreachableKnownDeviceMarkedOffline ==
    \A j \in CreatedJobs :
        LoopOver(j) =>
            /\ probed[j] = Enumerate(scans[j].subnet)
            /\ \A k \in 1..Len(probed[j]), d \in Devices :
                  (/\ routers[d].ip = probed[j][k]
                   /\ \E i \in 1..(j - 1) : \E m \in 1..Len(found[i]) :
                          found[i][m] = routers[d].id
                   /\ \A m \in 1..Len(found[j]) : found[j][m] # routers[d].id)
                  => routers[d].status = "offline"

\* C19: scanSubnet refuses a subnet of more than 1024 addresses before
\* probing any; a subnet of at most 1024 addresses, 1024 included, is
\* visited address by address, each once, in enumeration order.
\* (SpecBoundary)
C19_SizeLimitAndVisitOrder ==
    \A j \in CreatedJobs :
        LET s == scans[j].subnet
        IN /\ (TotalIps(s) > 1024 /\ pc[j] \notin {"start", "enter"})
                => (probed[j] = <<>> /\ pc[j] \in {"fail", "publish_error", "done"})
           /\ (IsCidr(s) /\ TotalIps(s) <= 1024)
                => /\ pc[j] \notin {"fail", "publish_error"}
                   /\ probed[j] = SubSeq(Enumerate(s), 1, idx[j])
                   /\ LoopOver(j) => Len(probed[j]) = TotalIps(s)
                   /\ Cardinality({probed[j][a] : a \in 1..Len(probed[j])})
                         = Len(probed[j])

\* A scan of exactly 1024 addresses has visited them all and completed,
\* after a request of 1025 addresses was refused.
C19_Witness ==
    \E j \in CreatedJobs, i \in CreatedJobs :
        /\ TotalIps(scans[j].subnet) = 1024
        /\ pc[j] = "done"
        /\ Len(probed[j]) = 1024
        /\ scans[j].status = "completed"
        /\ TotalIps(scans[i].subnet) = 1025
        /\ scans[i].status = "error"

\* C20: every ScanJob created reaches a terminal status and stays there,
\* whoever subscribes or disconnects meanwhile, given that every probe call
\* returns or throws. (SpecProgressFair)
C20_EveryJobTerminates ==
    \A j \in Jobs :
        (j <= Len(scans))
            ~> [](pc[j] = "done" /\ scans[j].status \in TerminalStatuses)

\* A job ended in error after a subscriber that had received an event
\* disconnected from it.
C20_Witness ==
    \E j \in CreatedJobs, s \in Subs :
        /\ pc[j] = "done"
        /\ scans[j].status = "error"
        /\ subscribers[s].job = j
        /\ subscribers[s].state = "closed"
        /\ Len(subscribers[s].received) >= 1
        /\ Len(subscribers[s].received) < Len(events[j])

\* C21: when a scan completes normally the persisted job's routersFound
\* equals the number of enumerated addresses whose testConnection returned
\* true during that scan. (SpecDelete)
C21_RoutersFoundCountsReachable ==
    \A j \in CreatedJobs :
        (pc[j] = "done" /\ scans[j].status = "completed")
            => scans[j].routersFound = cur[j].answered

\* C22: the topology holds at most one edge for every unordered pair of
\* devices. (SpecStore)
C22_OneEdgePerPair ==
    \A a \in Devices, b \in Devices : Cardinality(EdgesBetween(a, b)) <= 1

\* C23: over the whole sequence of progress events published for one job,
\* its terminal event included, the progress value never decreases.
\* (SpecProgress)
C23_ProgressNeverDecreases ==
    \A j \in CreatedJobs :
        \A k \in 1..(Len(events[j]) - 1) :
            events[j][k].progress <= events[j][k + 1].progress

\* C24: every probe operation turns an ordinary error of its try block into
\* the empty result (false, no identity, no rows) and throws nothing, and
\* rethrows the SSHTunnelError raised by connect() as it is. (SpecProbe)
C24_OrdinaryErrorsEmptyFatalRethrown ==
    lastProbe.op # "none" =>
        /\ lastProbe.raised = "Error" =>
              /\ ~lastProbe.thrown
              /\ lastProbe.error = "none"
              /\ ~lastProbe.online
              /\ lastProbe.identity = ""
              /\ lastProbe.neighbors = <<>>
        /\ lastProbe.raised = "SSHTunnelError" =>
              /\ lastProbe.thrown
              /\ lastProbe.error = lastProbe.raised
        /\ lastProbe.raised = "none" =>
              ~lastProbe.thrown /\ lastProbe.error = "none"

\* getOSPFNeighbors rethrew the SSHTunnelError of connect().
C24_Witness ==
    /\ lastProbe.op = "getOSPFNeighbors"
    /\ lastProbe.raised = "SSHTunnelError"
    /\ lastProbe.thrown
    /\ lastProbe.error = "SSHTunnelError"

\* The manager reports connected while the Client it holds has no session
\* up: every connection asked of the tunnel fails with SSHTunnelError.
TunnelBroken ==
    /\ clientTunnel /\ isConnected /\ tunnelClient # 0
    /\ sessions[tunnelClient] # "ready"

UpsertStep(j) == pc[j] = "upsert" /\ pc'[j] # "upsert"

\* The address job j is working on.
CurrentIp(j) == Enumerate(scans[j].subnet)[idx[j]]

ScanningEvents(j) == SelectSeq(events[j], LAMBDA e : e.status = "scanning")

\* Job j is between the call of testConnection for an address and the end
\* of that address's upsert.
Probing(j) == pc[j] \in {"test", "info", "neighbors", "lookup", "upsert"}

\* C28: a scan publishes exactly one "scanning" event per enumerated
\* address, in enumeration order, each before the probe of its address
\* answers, and every subscriber receives the events in the order they
\* were published. (SpecFanOut)
C28_OneScanningEventPerAddress ==
    /\ \A j \in CreatedJobs :
          LET ips == Enumerate(scans[j].subnet)
              sc == ScanningEvents(j)
          IN /\ Len(sc) = idx[j]
             /\ Len(sc) <= Len(ips)
             /\ \A k \in 1..Len(sc) : sc[k].currentIp = ips[k]
             /\ probed[j] = [k \in 1..Len(sc) |-> sc[k].currentIp]
             /\ (pc[j] = "done" /\ scans[j].status = "completed")
                    => Len(sc) = Len(ips)
    /\ SubscribersServed

\* A subscriber received the scanning events of both addresses, in order,
\* and the terminal event of the completed job.
C28_Witness ==
    \E s \in Subs :
        /\ subscribers[s].state = "ended"
        /\ scans[subscribers[s].job].status = "completed"
        /\ Len(subscribers[s].received) >= 2
        /\ subscribers[s].received[1].currentIp = 1
        /\ subscribers[s].received[2].currentIp = 2

C30_CompletedEventMatchesJob ==
    \A s \in Subs :
        \A k \in 1..Len(subscribers[s].received) :
            subscribers[s].received[k].status = "completed" =>
                LET job == scans[subscribers[s].job]
                    ev == subscribers[s].received[k]
                IN /\ job.status = "completed"
                   /\ ev.routersFound = job.routersFound
                   /\ ev.asymmetriesFound = job.asymmetriesFound

\* C31: every subscriber registered on the progress channel of a job,
\* whether the job had not started, was running or was already completed
\* or in error when it registered, eventually receives a terminal event and
\* has its stream ended (or leaves by itself): none stays registered for a
\* job that is terminal. (SpecProgressFair)
C31_EverySubscriberIsEnded ==
    \A s \in Subs :
        (subscribers[s].state = "open" /\ subscribers[s].job \in CreatedJobs)
            ~> (subscribers[s].state # "open")

\* The orders in which a table of n rows can be iterated.
Orders(n) ==
    {p \in [1..n -> 1..n] : \A a \in 1..n, b \in 1..n : p[a] = p[b] => a = b}

\* The table rs iterated in order p.
Reordered(rs, p) == [k \in 1..Len(rs) |-> rs[p[k]]]

\* The unordered device pairs that have an edge in getTopologyData's result
\* for the table rs.
EdgePairs(rs) ==
    {{TopologyEdges(rs)[k].source, TopologyEdges(rs)[k].target} :
        k \in 1..Len(TopologyEdges(rs))}

\* C32: the set of unordered device pairs with at least one edge in
\* getTopologyData's result is the same for every iteration order of the
\* stored devices. (SpecConcurrent)
C32_EdgePairsOrderIndependent ==
    \A p \in Orders(Len(routers)) :
        EdgePairs(Reordered(routers, p)) = EdgePairs(routers)

\* C33: getAsymmetricRoutes emits at most one AsymmetricRoute per unordered
\* pair of devices, and only for pairs in which each device holds a neighbor
\* row whose neighborIp is the other device's ip.
C33_OneRoutePerListingPair ==
    \A a \in Devices, b \in Devices :
        /\ Cardinality(RoutesBetween(a, b)) <= 1
        /\ (RoutesBetween(a, b) # {}) => (Lists(a, b) /\ Lists(b, a))

\* Two devices with one route between them, one of them holding two rows
\* that point at the other with different costs.
C33_Witness ==
    \E a \in Devices, b \in Devices :
        /\ a # b
        /\ Cardinality(RoutesBetween(a, b)) = 1
        /\ Len(routers[a].ospfNeighbors) = 2
        /\ \A k \in 1..2 : routers[a].ospfNeighbors[k].neighborIp = routers[b].ip
        /\ routers[a].ospfNeighbors[1].cost # routers[a].ospfNeighbors[2].cost
        /\ Lists(b, a)

\* The (unordered device pair, difference, severity) triples that
\* getAsymmetricRoutes reports for the table rs.
RouteTriples(rs) ==
    {<<{AsymmetricRoutes(rs)[k].router1Id, AsymmetricRoutes(rs)[k].router2Id},
       AsymmetricRoutes(rs)[k].difference,
       AsymmetricRoutes(rs)[k].severity>> : k \in 1..Len(AsymmetricRoutes(rs))}

\* No two devices of the store share an ip.
UniqueIps == \A a \in Devices, b \in Devices : routers[a].ip = routers[b].ip => a = b

\* C34: for every device set with unique IPs the set of (unordered device
\* pair, difference, severity) triples reported by getAsymmetricRoutes is the
\* same for every iteration order of the devices, also when a device holds
\* several rows pointing at the same neighbor with different costs.
C34_RouteTriplesOrderIndependent ==
    UniqueIps =>
        \A p \in Orders(Len(routers)) :
            RouteTriples(Reordered(routers, p)) = RouteTriples(routers)

\* A device holding two rows that point at the same neighbor with different
\* costs, the neighbor answering with the cost of the second row: a route is
\* reported for the pair.
C34_Witness ==
    \E a \in Devices, b \in Devices :
        /\ a # b
        /\ UniqueIps
        /\ Len(routers[a].ospfNeighbors) = 2
        /\ \A k \in 1..2 : routers[a].ospfNeighbors[k].neighborIp = routers[b].ip
        /\ routers[a].ospfNeighbors[1].cost # routers[a].ospfNeighbors[2].cost
        /\ Lists(b, a)
        /\ CostTo(b, a) = routers[a].ospfNeighbors[2].cost
        /\ RouteTriples(routers) # {}

\* C35: no edge returned by getTopologyData has source equal to target: a
\* neighbor row whose neighborIp is the ip of the device that holds it
\* produces no edge.
C35_NoSelfEdge ==
    \A k \in 1..Len(TopologyEdges(routers)) :
        TopologyEdges(routers)[k].source # TopologyEdges(routers)[k].target

\* C36: getTopologyData and getAsymmetricRoutes agree on every device set:
\* two devices have a topology edge with isAsymmetric = true if and only if
\* getAsymmetricRoutes emits an AsymmetricRoute for the pair.
C36_AsymmetricEdgeIffRoute ==
    \A a \in Devices, b \in Devices :
        a # b =>
            ((\E k \in EdgesBetween(a, b) : TopologyEdges(routers)[k].isAsymmetric)
                <=> (RoutesBetween(a, b) # {}))

\* C37: after any sequence of connect, disconnect, ready, error and close
\* events getStatus().connected is true if and only if the manager's current
\* client session is ready and not closed; an event of a session that was
\* replaced or disconnected does not change what is reported.
C37_ConnectedIffCurrentSessionReady ==
    isConnected <=> (tunnelClient # 0 /\ sessions[tunnelClient] = "ready")

-----------------------------------------------------------------------------
(* The tunnel manager on its own: connect() naming either gateway,          *)
(* disconnect() and the events of every Client created, in any order.       *)

TunnelConnectAny == TunnelConnectTo(GatewayHosts)

InitGateway == InitCommon /\ InitTunnel /\ clientTunnel = TRUE

NextGateway ==
    \/ TunnelConnectAny
    \/ TunnelReady
    \/ TunnelLost
    \/ TunnelDisconnect

SpecGateway == InitGateway /\ [][NextGateway]_vars

\* C38: whenever getStatus() reports connected = true over a live session,
\* the host it reports is the host that session was established to, also
\* after a later connect call that names another host while the session is
\* connected.
C38_ReportedHostIsSessionHost ==
    (isConnected /\ tunnelClient # 0 /\ sessions[tunnelClient] = "ready")
        => tunnelHost = sessionHost[tunnelClient]

\* C39: the upsert of an address whose lookup found a Device leaves that
\* Device's id, ip and hostname as they were and leaves every other Device
\* of the store as it was; no Device is added or removed.
C39_UpdateKeepsIdIpHostname ==
    [][\A j \in Jobs :
          (UpsertStep(j) /\ cur[j].existing # 0) =>
              /\ Len(routers') = Len(routers)
              /\ \A k \in 1..Len(routers) :
                    IF routers[k].id = cur[j].existing
                    THEN /\ routers'[k].id = routers[k].id
                         /\ routers'[k].ip = routers[k].ip
                         /\ routers'[k].hostname = routers[k].hostname
                    ELSE routers'[k] = routers[k]]_vars

\* A device created by the first job and updated by the second, which was
\* answered another identity: the device keeps the hostname it was created
\* with, beside a device the second job did not reach.
C39_Witness ==
    /\ Len(scans) = 2 /\ pc[2] = "done"
    /\ Len(routers) = 2
    /\ \E k \in 1..Len(routers) :
        /\ \E n \in 1..Len(found[1]) : found[1][n] = routers[k].id
        /\ found[2] = <<routers[k].id>>
        /\ routers[k].lastSeen = 2
        /\ routers[k].hostname # routers[k].identity

====
